---- MODULE Spec2Model ----
(***************************************************************************)
(* Model of src/logs_parser.py: the log-line extractor (the compiled      *)
(* regular expression `pattern`), the streaming best-per-episode          *)
(* reduction and the CSV outputs of parse_one_run, the .cfg pass, and the *)
(* loop of main over the run directories.                                 *)
(*                                                                         *)
(* Text is modelled as sequences of one-character strings, so that        *)
(* matching, float(), int() and sorting are computed on characters.       *)
(***************************************************************************)
EXTENDS Integers, Sequences, FiniteSets, TLC

(***************************************************************************)
(* Characters and their code points.  A printable ASCII character, and    *)
(* each of \t \n \f \r, is the string of that character; any other        *)
(* character is the string "U+" and its code point in hexadecimal.         *)
(***************************************************************************)
Digits == <<"0","1","2","3","4","5","6","7","8","9">>
Upper  == <<"A","B","C","D","E","F","G","H","I","J","K","L","M","N","O","P","Q","R","S","T","U","V","W","X","Y","Z">>
Lower  == <<"a","b","c","d","e","f","g","h","i","j","k","l","m","n","o","p","q","r","s","t","u","v","w","x","y","z">>

IndexOf(str, c) == CHOOSE i \in 1..Len(str) : str[i] = c
Occurs(str, c)  == \E i \in 1..Len(str) : str[i] = c

Punct == << <<"!", 33>>, <<"\"", 34>>, <<"#", 35>>,
           <<"$", 36>>, <<"%", 37>>, <<"&", 38>>, <<"'", 39>>, <<"(", 40>>,
           <<")", 41>>, <<"*", 42>>, <<"+", 43>>, <<",", 44>>, <<"-", 45>>,
           <<".", 46>>, <<"/", 47>>, <<":", 58>>, <<";", 59>>, <<"<", 60>>,
           <<"=", 61>>, <<">", 62>>, <<"?", 63>>, <<"@", 64>>, <<"[", 91>>,
           <<"\\", 92>>, <<"]", 93>>, <<"^", 94>>, <<"_", 95>>, <<"{", 123>>, <<"|", 124>>,
           <<"}", 125>>, <<"~", 126>> >>

\* the characters \s matches in a str pattern, with their code points
Whitespace ==
  << 
<<"\t", 9>>, <<"\n", 10>>, <<"U+000B", 11>>, <<"\f", 12>>,
     <<"\r", 13>>, <<"U+001C", 28>>, <<"U+001D", 29>>, <<"U+001E", 30>>,
     <<"U+001F", 31>>, <<" ", 32>>, <<"U+0085", 133>>, <<"U+00A0", 160>>,
     <<"U+1680", 5760>>, <<"U+2000", 8192>>, <<"U+2001", 8193>>, <<"U+2002", 8194>>,
     <<"U+2003", 8195>>, <<"U+2004", 8196>>, <<"U+2005", 8197>>, <<"U+2006", 8198>>,
     <<"U+2007", 8199>>, <<"U+2008", 8200>>, <<"U+2009", 8201>>, <<"U+200A", 8202>>,
     <<"U+2028", 8232>>, <<"U+2029", 8233>>, <<"U+202F", 8239>>, <<"U+205F", 8287>>,
     <<"U+3000", 12288>> >>

\* the decimal digits other than 0-9 that \d matches in a str pattern, and
\* that int() and float() read: character, code point, digit value
OtherDigits ==
  << 
<<"U+0660", 1632, 0>>, <<"U+0661", 1633, 1>>, <<"U+0662", 1634, 2>>, <<"U+0663", 1635, 3>>,
     <<"U+0664", 1636, 4>>, <<"U+0665", 1637, 5>>, <<"U+0666", 1638, 6>>, <<"U+0667", 1639, 7>>,
     <<"U+0668", 1640, 8>>, <<"U+0669", 1641, 9>>, <<"U+06F0", 1776, 0>>, <<"U+06F1", 1777, 1>>,
     <<"U+06F2", 1778, 2>>, <<"U+06F3", 1779, 3>>, <<"U+06F4", 1780, 4>>, <<"U+06F5", 1781, 5>>,
     <<"U+06F6", 1782, 6>>, <<"U+06F7", 1783, 7>>, <<"U+06F8", 1784, 8>>, <<"U+06F9", 1785, 9>>,
     <<"U+07C0", 1984, 0>>, <<"U+07C1", 1985, 1>>, <<"U+07C2", 1986, 2>>, <<"U+07C3", 1987, 3>>,
     <<"U+07C4", 1988, 4>>, <<"U+07C5", 1989, 5>>, <<"U+07C6", 1990, 6>>, <<"U+07C7", 1991, 7>>,
     <<"U+07C8", 1992, 8>>, <<"U+07C9", 1993, 9>>, <<"U+0966", 2406, 0>>, <<"U+0967", 2407, 1>>,
     <<"U+0968", 2408, 2>>, <<"U+0969", 2409, 3>>, <<"U+096A", 2410, 4>>, <<"U+096B", 2411, 5>>,
     <<"U+096C", 2412, 6>>, <<"U+096D", 2413, 7>>, <<"U+096E", 2414, 8>>, <<"U+096F", 2415, 9>>,
     <<"U+09E6", 2534, 0>>, <<"U+09E7", 2535, 1>>, <<"U+09E8", 2536, 2>>, <<"U+09E9", 2537, 3>>,
     <<"U+09EA", 2538, 4>>, <<"U+09EB", 2539, 5>>, <<"U+09EC", 2540, 6>>, <<"U+09ED", 2541, 7>>,
     <<"U+09EE", 2542, 8>>, <<"U+09EF", 2543, 9>>, <<"U+0A66", 2662, 0>>, <<"U+0A67", 2663, 1>>,
     <<"U+0A68", 2664, 2>>, <<"U+0A69", 2665, 3>>, <<"U+0A6A", 2666, 4>>, <<"U+0A6B", 2667, 5>>,
     <<"U+0A6C", 2668, 6>>, <<"U+0A6D", 2669, 7>>, <<"U+0A6E", 2670, 8>>, <<"U+0A6F", 2671, 9>>,
     <<"U+0AE6", 2790, 0>>, <<"U+0AE7", 2791, 1>>, <<"U+0AE8", 2792, 2>>, <<"U+0AE9", 2793, 3>>,
     <<"U+0AEA", 2794, 4>>, <<"U+0AEB", 2795, 5>>, <<"U+0AEC", 2796, 6>>, <<"U+0AED", 2797, 7>>,
     <<"U+0AEE", 2798, 8>>, <<"U+0AEF", 2799, 9>>, <<"U+0B66", 2918, 0>>, <<"U+0B67", 2919, 1>>,
     <<"U+0B68", 2920, 2>>, <<"U+0B69", 2921, 3>>, <<"U+0B6A", 2922, 4>>, <<"U+0B6B", 2923, 5>>,
     <<"U+0B6C", 2924, 6>>, <<"U+0B6D", 2925, 7>>, <<"U+0B6E", 2926, 8>>, <<"U+0B6F", 2927, 9>>,
     <<"U+0BE6", 3046, 0>>, <<"U+0BE7", 3047, 1>>, <<"U+0BE8", 3048, 2>>, <<"U+0BE9", 3049, 3>>,
     <<"U+0BEA", 3050, 4>>, <<"U+0BEB", 3051, 5>>, <<"U+0BEC", 3052, 6>>, <<"U+0BED", 3053, 7>>,
     <<"U+0BEE", 3054, 8>>, <<"U+0BEF", 3055, 9>>, <<"U+0C66", 3174, 0>>, <<"U+0C67", 3175, 1>>,
     <<"U+0C68", 3176, 2>>, <<"U+0C69", 3177, 3>>, <<"U+0C6A", 3178, 4>>, <<"U+0C6B", 3179, 5>>,
     <<"U+0C6C", 3180, 6>>, <<"U+0C6D", 3181, 7>>, <<"U+0C6E", 3182, 8>>, <<"U+0C6F", 3183, 9>>,
     <<"U+0CE6", 3302, 0>>, <<"U+0CE7", 3303, 1>>, <<"U+0CE8", 3304, 2>>, <<"U+0CE9", 3305, 3>>,
     <<"U+0CEA", 3306, 4>>, <<"U+0CEB", 3307, 5>>, <<"U+0CEC", 3308, 6>>, <<"U+0CED", 3309, 7>>,
     <<"U+0CEE", 3310, 8>>, <<"U+0CEF", 3311, 9>>, <<"U+0D66", 3430, 0>>, <<"U+0D67", 3431, 1>>,
     <<"U+0D68", 3432, 2>>, <<"U+0D69", 3433, 3>>, <<"U+0D6A", 3434, 4>>, <<"U+0D6B", 3435, 5>>,
     <<"U+0D6C", 3436, 6>>, <<"U+0D6D", 3437, 7>>, <<"U+0D6E", 3438, 8>>, <<"U+0D6F", 3439, 9>>,
     <<"U+0DE6", 3558, 0>>, <<"U+0DE7", 3559, 1>>, <<"U+0DE8", 3560, 2>>, <<"U+0DE9", 3561, 3>>,
     <<"U+0DEA", 3562, 4>>, <<"U+0DEB", 3563, 5>>, <<"U+0DEC", 3564, 6>>, <<"U+0DED", 3565, 7>>,
     <<"U+0DEE", 3566, 8>>, <<"U+0DEF", 3567, 9>>, <<"U+0E50", 3664, 0>>, <<"U+0E51", 3665, 1>>,
     <<"U+0E52", 3666, 2>>, <<"U+0E53", 3667, 3>>, <<"U+0E54", 3668, 4>>, <<"U+0E55", 3669, 5>>,
     <<"U+0E56", 3670, 6>>, <<"U+0E57", 3671, 7>>, <<"U+0E58", 3672, 8>>, <<"U+0E59", 3673, 9>>,
     <<"U+0ED0", 3792, 0>>, <<"U+0ED1", 3793, 1>>, <<"U+0ED2", 3794, 2>>, <<"U+0ED3", 3795, 3>>,
     <<"U+0ED4", 3796, 4>>, <<"U+0ED5", 3797, 5>>, <<"U+0ED6", 3798, 6>>, <<"U+0ED7", 3799, 7>>,
     <<"U+0ED8", 3800, 8>>, <<"U+0ED9", 3801, 9>>, <<"U+0F20", 3872, 0>>, <<"U+0F21", 3873, 1>>,
     <<"U+0F22", 3874, 2>>, <<"U+0F23", 3875, 3>>, <<"U+0F24", 3876, 4>>, <<"U+0F25", 3877, 5>>,
     <<"U+0F26", 3878, 6>>, <<"U+0F27", 3879, 7>>, <<"U+0F28", 3880, 8>>, <<"U+0F29", 3881, 9>>,
     <<"U+1040", 4160, 0>>, <<"U+1041", 4161, 1>>, <<"U+1042", 4162, 2>>, <<"U+1043", 4163, 3>>,
     <<"U+1044", 4164, 4>>, <<"U+1045", 4165, 5>>, <<"U+1046", 4166, 6>>, <<"U+1047", 4167, 7>>,
     <<"U+1048", 4168, 8>>, <<"U+1049", 4169, 9>>, <<"U+1090", 4240, 0>>, <<"U+1091", 4241, 1>>,
     <<"U+1092", 4242, 2>>, <<"U+1093", 4243, 3>>, <<"U+1094", 4244, 4>>, <<"U+1095", 4245, 5>>,
     <<"U+1096", 4246, 6>>, <<"U+1097", 4247, 7>>, <<"U+1098", 4248, 8>>, <<"U+1099", 4249, 9>>,
     <<"U+17E0", 6112, 0>>, <<"U+17E1", 6113, 1>>, <<"U+17E2", 6114, 2>>, <<"U+17E3", 6115, 3>>,
     <<"U+17E4", 6116, 4>>, <<"U+17E5", 6117, 5>>, <<"U+17E6", 6118, 6>>, <<"U+17E7", 6119, 7>>,
     <<"U+17E8", 6120, 8>>, <<"U+17E9", 6121, 9>>, <<"U+1810", 6160, 0>>, <<"U+1811", 6161, 1>>,
     <<"U+1812", 6162, 2>>, <<"U+1813", 6163, 3>>, <<"U+1814", 6164, 4>>, <<"U+1815", 6165, 5>>,
     <<"U+1816", 6166, 6>>, <<"U+1817", 6167, 7>>, <<"U+1818", 6168, 8>>, <<"U+1819", 6169, 9>>,
     <<"U+1946", 6470, 0>>, <<"U+1947", 6471, 1>>, <<"U+1948", 6472, 2>>, <<"U+1949", 6473, 3>>,
     <<"U+194A", 6474, 4>>, <<"U+194B", 6475, 5>>, <<"U+194C", 6476, 6>>, <<"U+194D", 6477, 7>>,
     <<"U+194E", 6478, 8>>, <<"U+194F", 6479, 9>>, <<"U+19D0", 6608, 0>>, <<"U+19D1", 6609, 1>>,
     <<"U+19D2", 6610, 2>>, <<"U+19D3", 6611, 3>>, <<"U+19D4", 6612, 4>>, <<"U+19D5", 6613, 5>>,
     <<"U+19D6", 6614, 6>>, <<"U+19D7", 6615, 7>>, <<"U+19D8", 6616, 8>>, <<"U+19D9", 6617, 9>>,
     <<"U+1A80", 6784, 0>>, <<"U+1A81", 6785, 1>>, <<"U+1A82", 6786, 2>>, <<"U+1A83", 6787, 3>>,
     <<"U+1A84", 6788, 4>>, <<"U+1A85", 6789, 5>>, <<"U+1A86", 6790, 6>>, <<"U+1A87", 6791, 7>>,
     <<"U+1A88", 6792, 8>>, <<"U+1A89", 6793, 9>>, <<"U+1A90", 6800, 0>>, <<"U+1A91", 6801, 1>>,
     <<"U+1A92", 6802, 2>>, <<"U+1A93", 6803, 3>>, <<"U+1A94", 6804, 4>>, <<"U+1A95", 6805, 5>>,
     <<"U+1A96", 6806, 6>>, <<"U+1A97", 6807, 7>>, <<"U+1A98", 6808, 8>>, <<"U+1A99", 6809, 9>>,
     <<"U+1B50", 6992, 0>>, <<"U+1B51", 6993, 1>>, <<"U+1B52", 6994, 2>>, <<"U+1B53", 6995, 3>>,
     <<"U+1B54", 6996, 4>>, <<"U+1B55", 6997, 5>>, <<"U+1B56", 6998, 6>>, <<"U+1B57", 6999, 7>>,
     <<"U+1B58", 7000, 8>>, <<"U+1B59", 7001, 9>>, <<"U+1BB0", 7088, 0>>, <<"U+1BB1", 7089, 1>>,
     <<"U+1BB2", 7090, 2>>, <<"U+1BB3", 7091, 3>>, <<"U+1BB4", 7092, 4>>, <<"U+1BB5", 7093, 5>>,
     <<"U+1BB6", 7094, 6>>, <<"U+1BB7", 7095, 7>>, <<"U+1BB8", 7096, 8>>, <<"U+1BB9", 7097, 9>>,
     <<"U+1C40", 7232, 0>>, <<"U+1C41", 7233, 1>>, <<"U+1C42", 7234, 2>>, <<"U+1C43", 7235, 3>>,
     <<"U+1C44", 7236, 4>>, <<"U+1C45", 7237, 5>>, <<"U+1C46", 7238, 6>>, <<"U+1C47", 7239, 7>>,
     <<"U+1C48", 7240, 8>>, <<"U+1C49", 7241, 9>>, <<"U+1C50", 7248, 0>>, <<"U+1C51", 7249, 1>>,
     <<"U+1C52", 7250, 2>>, <<"U+1C53", 7251, 3>>, <<"U+1C54", 7252, 4>>, <<"U+1C55", 7253, 5>>,
     <<"U+1C56", 7254, 6>>, <<"U+1C57", 7255, 7>>, <<"U+1C58", 7256, 8>>, <<"U+1C59", 7257, 9>>,
     <<"U+A620", 42528, 0>>, <<"U+A621", 42529, 1>>, <<"U+A622", 42530, 2>>, <<"U+A623", 42531, 3>>,
     <<"U+A624", 42532, 4>>, <<"U+A625", 42533, 5>>, <<"U+A626", 42534, 6>>, <<"U+A627", 42535, 7>>,
     <<"U+A628", 42536, 8>>, <<"U+A629", 42537, 9>>, <<"U+A8D0", 43216, 0>>, <<"U+A8D1", 43217, 1>>,
     <<"U+A8D2", 43218, 2>>, <<"U+A8D3", 43219, 3>>, <<"U+A8D4", 43220, 4>>, <<"U+A8D5", 43221, 5>>,
     <<"U+A8D6", 43222, 6>>, <<"U+A8D7", 43223, 7>>, <<"U+A8D8", 43224, 8>>, <<"U+A8D9", 43225, 9>>,
     <<"U+A900", 43264, 0>>, <<"U+A901", 43265, 1>>, <<"U+A902", 43266, 2>>, <<"U+A903", 43267, 3>>,
     <<"U+A904", 43268, 4>>, <<"U+A905", 43269, 5>>, <<"U+A906", 43270, 6>>, <<"U+A907", 43271, 7>>,
     <<"U+A908", 43272, 8>>, <<"U+A909", 43273, 9>>, <<"U+A9D0", 43472, 0>>, <<"U+A9D1", 43473, 1>>,
     <<"U+A9D2", 43474, 2>>, <<"U+A9D3", 43475, 3>>, <<"U+A9D4", 43476, 4>>, <<"U+A9D5", 43477, 5>>,
     <<"U+A9D6", 43478, 6>>, <<"U+A9D7", 43479, 7>>, <<"U+A9D8", 43480, 8>>, <<"U+A9D9", 43481, 9>>,
     <<"U+A9F0", 43504, 0>>, <<"U+A9F1", 43505, 1>>, <<"U+A9F2", 43506, 2>>, <<"U+A9F3", 43507, 3>>,
     <<"U+A9F4", 43508, 4>>, <<"U+A9F5", 43509, 5>>, <<"U+A9F6", 43510, 6>>, <<"U+A9F7", 43511, 7>>,
     <<"U+A9F8", 43512, 8>>, <<"U+A9F9", 43513, 9>>, <<"U+AA50", 43600, 0>>, <<"U+AA51", 43601, 1>>,
     <<"U+AA52", 43602, 2>>, <<"U+AA53", 43603, 3>>, <<"U+AA54", 43604, 4>>, <<"U+AA55", 43605, 5>>,
     <<"U+AA56", 43606, 6>>, <<"U+AA57", 43607, 7>>, <<"U+AA58", 43608, 8>>, <<"U+AA59", 43609, 9>>,
     <<"U+ABF0", 44016, 0>>, <<"U+ABF1", 44017, 1>>, <<"U+ABF2", 44018, 2>>, <<"U+ABF3", 44019, 3>>,
     <<"U+ABF4", 44020, 4>>, <<"U+ABF5", 44021, 5>>, <<"U+ABF6", 44022, 6>>, <<"U+ABF7", 44023, 7>>,
     <<"U+ABF8", 44024, 8>>, <<"U+ABF9", 44025, 9>>, <<"U+FF10", 65296, 0>>, <<"U+FF11", 65297, 1>>,
     <<"U+FF12", 65298, 2>>, <<"U+FF13", 65299, 3>>, <<"U+FF14", 65300, 4>>, <<"U+FF15", 65301, 5>>,
     <<"U+FF16", 65302, 6>>, <<"U+FF17", 65303, 7>>, <<"U+FF18", 65304, 8>>, <<"U+FF19", 65305, 9>>,
     <<"U+104A0", 66720, 0>>, <<"U+104A1", 66721, 1>>, <<"U+104A2", 66722, 2>>, <<"U+104A3", 66723, 3>>,
     <<"U+104A4", 66724, 4>>, <<"U+104A5", 66725, 5>>, <<"U+104A6", 66726, 6>>, <<"U+104A7", 66727, 7>>,
     <<"U+104A8", 66728, 8>>, <<"U+104A9", 66729, 9>>, <<"U+10D30", 68912, 0>>, <<"U+10D31", 68913, 1>>,
     <<"U+10D32", 68914, 2>>, <<"U+10D33", 68915, 3>>, <<"U+10D34", 68916, 4>>, <<"U+10D35", 68917, 5>>,
     <<"U+10D36", 68918, 6>>, <<"U+10D37", 68919, 7>>, <<"U+10D38", 68920, 8>>, <<"U+10D39", 68921, 9>>,
     <<"U+11066", 69734, 0>>, <<"U+11067", 69735, 1>>, <<"U+11068", 69736, 2>>, <<"U+11069", 69737, 3>>,
     <<"U+1106A", 69738, 4>>, <<"U+1106B", 69739, 5>>, <<"U+1106C", 69740, 6>>, <<"U+1106D", 69741, 7>>,
     <<"U+1106E", 69742, 8>>, <<"U+1106F", 69743, 9>>, <<"U+110F0", 69872, 0>>, <<"U+110F1", 69873, 1>>,
     <<"U+110F2", 69874, 2>>, <<"U+110F3", 69875, 3>>, <<"U+110F4", 69876, 4>>, <<"U+110F5", 69877, 5>>,
     <<"U+110F6", 69878, 6>>, <<"U+110F7", 69879, 7>>, <<"U+110F8", 69880, 8>>, <<"U+110F9", 69881, 9>>,
     <<"U+11136", 69942, 0>>, <<"U+11137", 69943, 1>>, <<"U+11138", 69944, 2>>, <<"U+11139", 69945, 3>>,
     <<"U+1113A", 69946, 4>>, <<"U+1113B", 69947, 5>>, <<"U+1113C", 69948, 6>>, <<"U+1113D", 69949, 7>>,
     <<"U+1113E", 69950, 8>>, <<"U+1113F", 69951, 9>>, <<"U+111D0", 70096, 0>>, <<"U+111D1", 70097, 1>>,
     <<"U+111D2", 70098, 2>>, <<"U+111D3", 70099, 3>>, <<"U+111D4", 70100, 4>>, <<"U+111D5", 70101, 5>>,
     <<"U+111D6", 70102, 6>>, <<"U+111D7", 70103, 7>>, <<"U+111D8", 70104, 8>>, <<"U+111D9", 70105, 9>>,
     <<"U+112F0", 70384, 0>>, <<"U+112F1", 70385, 1>>, <<"U+112F2", 70386, 2>>, <<"U+112F3", 70387, 3>>,
     <<"U+112F4", 70388, 4>>, <<"U+112F5", 70389, 5>>, <<"U+112F6", 70390, 6>>, <<"U+112F7", 70391, 7>>,
     <<"U+112F8", 70392, 8>>, <<"U+112F9", 70393, 9>>, <<"U+11450", 70736, 0>>, <<"U+11451", 70737, 1>>,
     <<"U+11452", 70738, 2>>, <<"U+11453", 70739, 3>>, <<"U+11454", 70740, 4>>, <<"U+11455", 70741, 5>>,
     <<"U+11456", 70742, 6>>, <<"U+11457", 70743, 7>>, <<"U+11458", 70744, 8>>, <<"U+11459", 70745, 9>>,
     <<"U+114D0", 70864, 0>>, <<"U+114D1", 70865, 1>>, <<"U+114D2", 70866, 2>>, <<"U+114D3", 70867, 3>>,
     <<"U+114D4", 70868, 4>>, <<"U+114D5", 70869, 5>>, <<"U+114D6", 70870, 6>>, <<"U+114D7", 70871, 7>>,
     <<"U+114D8", 70872, 8>>, <<"U+114D9", 70873, 9>>, <<"U+11650", 71248, 0>>, <<"U+11651", 71249, 1>>,
     <<"U+11652", 71250, 2>>, <<"U+11653", 71251, 3>>, <<"U+11654", 71252, 4>>, <<"U+11655", 71253, 5>>,
     <<"U+11656", 71254, 6>>, <<"U+11657", 71255, 7>>, <<"U+11658", 71256, 8>>, <<"U+11659", 71257, 9>>,
     <<"U+116C0", 71360, 0>>, <<"U+116C1", 71361, 1>>, <<"U+116C2", 71362, 2>>, <<"U+116C3", 71363, 3>>,
     <<"U+116C4", 71364, 4>>, <<"U+116C5", 71365, 5>>, <<"U+116C6", 71366, 6>>, <<"U+116C7", 71367, 7>>,
     <<"U+116C8", 71368, 8>>, <<"U+116C9", 71369, 9>>, <<"U+11730", 71472, 0>>, <<"U+11731", 71473, 1>>,
     <<"U+11732", 71474, 2>>, <<"U+11733", 71475, 3>>, <<"U+11734", 71476, 4>>, <<"U+11735", 71477, 5>>,
     <<"U+11736", 71478, 6>>, <<"U+11737", 71479, 7>>, <<"U+11738", 71480, 8>>, <<"U+11739", 71481, 9>>,
     <<"U+118E0", 71904, 0>>, <<"U+118E1", 71905, 1>>, <<"U+118E2", 71906, 2>>, <<"U+118E3", 71907, 3>>,
     <<"U+118E4", 71908, 4>>, <<"U+118E5", 71909, 5>>, <<"U+118E6", 71910, 6>>, <<"U+118E7", 71911, 7>>,
     <<"U+118E8", 71912, 8>>, <<"U+118E9", 71913, 9>>, <<"U+11950", 72016, 0>>, <<"U+11951", 72017, 1>>,
     <<"U+11952", 72018, 2>>, <<"U+11953", 72019, 3>>, <<"U+11954", 72020, 4>>, <<"U+11955", 72021, 5>>,
     <<"U+11956", 72022, 6>>, <<"U+11957", 72023, 7>>, <<"U+11958", 72024, 8>>, <<"U+11959", 72025, 9>>,
     <<"U+11C50", 72784, 0>>, <<"U+11C51", 72785, 1>>, <<"U+11C52", 72786, 2>>, <<"U+11C53", 72787, 3>>,
     <<"U+11C54", 72788, 4>>, <<"U+11C55", 72789, 5>>, <<"U+11C56", 72790, 6>>, <<"U+11C57", 72791, 7>>,
     <<"U+11C58", 72792, 8>>, <<"U+11C59", 72793, 9>>, <<"U+11D50", 73040, 0>>, <<"U+11D51", 73041, 1>>,
     <<"U+11D52", 73042, 2>>, <<"U+11D53", 73043, 3>>, <<"U+11D54", 73044, 4>>, <<"U+11D55", 73045, 5>>,
     <<"U+11D56", 73046, 6>>, <<"U+11D57", 73047, 7>>, <<"U+11D58", 73048, 8>>, <<"U+11D59", 73049, 9>>,
     <<"U+11DA0", 73120, 0>>, <<"U+11DA1", 73121, 1>>, <<"U+11DA2", 73122, 2>>, <<"U+11DA3", 73123, 3>>,
     <<"U+11DA4", 73124, 4>>, <<"U+11DA5", 73125, 5>>, <<"U+11DA6", 73126, 6>>, <<"U+11DA7", 73127, 7>>,
     <<"U+11DA8", 73128, 8>>, <<"U+11DA9", 73129, 9>>, <<"U+16A60", 92768, 0>>, <<"U+16A61", 92769, 1>>,
     <<"U+16A62", 92770, 2>>, <<"U+16A63", 92771, 3>>, <<"U+16A64", 92772, 4>>, <<"U+16A65", 92773, 5>>,
     <<"U+16A66", 92774, 6>>, <<"U+16A67", 92775, 7>>, <<"U+16A68", 92776, 8>>, <<"U+16A69", 92777, 9>>,
     <<"U+16AC0", 92864, 0>>, <<"U+16AC1", 92865, 1>>, <<"U+16AC2", 92866, 2>>, <<"U+16AC3", 92867, 3>>,
     <<"U+16AC4", 92868, 4>>, <<"U+16AC5", 92869, 5>>, <<"U+16AC6", 92870, 6>>, <<"U+16AC7", 92871, 7>>,
     <<"U+16AC8", 92872, 8>>, <<"U+16AC9", 92873, 9>>, <<"U+16B50", 93008, 0>>, <<"U+16B51", 93009, 1>>,
     <<"U+16B52", 93010, 2>>, <<"U+16B53", 93011, 3>>, <<"U+16B54", 93012, 4>>, <<"U+16B55", 93013, 5>>,
     <<"U+16B56", 93014, 6>>, <<"U+16B57", 93015, 7>>, <<"U+16B58", 93016, 8>>, <<"U+16B59", 93017, 9>>,
     <<"U+1D7CE", 120782, 0>>, <<"U+1D7CF", 120783, 1>>, <<"U+1D7D0", 120784, 2>>, <<"U+1D7D1", 120785, 3>>,
     <<"U+1D7D2", 120786, 4>>, <<"U+1D7D3", 120787, 5>>, <<"U+1D7D4", 120788, 6>>, <<"U+1D7D5", 120789, 7>>,
     <<"U+1D7D6", 120790, 8>>, <<"U+1D7D7", 120791, 9>>, <<"U+1D7D8", 120792, 0>>, <<"U+1D7D9", 120793, 1>>,
     <<"U+1D7DA", 120794, 2>>, <<"U+1D7DB", 120795, 3>>, <<"U+1D7DC", 120796, 4>>, <<"U+1D7DD", 120797, 5>>,
     <<"U+1D7DE", 120798, 6>>, <<"U+1D7DF", 120799, 7>>, <<"U+1D7E0", 120800, 8>>, <<"U+1D7E1", 120801, 9>>,
     <<"U+1D7E2", 120802, 0>>, <<"U+1D7E3", 120803, 1>>, <<"U+1D7E4", 120804, 2>>, <<"U+1D7E5", 120805, 3>>,
     <<"U+1D7E6", 120806, 4>>, <<"U+1D7E7", 120807, 5>>, <<"U+1D7E8", 120808, 6>>, <<"U+1D7E9", 120809, 7>>,
     <<"U+1D7EA", 120810, 8>>, <<"U+1D7EB", 120811, 9>>, <<"U+1D7EC", 120812, 0>>, <<"U+1D7ED", 120813, 1>>,
     <<"U+1D7EE", 120814, 2>>, <<"U+1D7EF", 120815, 3>>, <<"U+1D7F0", 120816, 4>>, <<"U+1D7F1", 120817, 5>>,
     <<"U+1D7F2", 120818, 6>>, <<"U+1D7F3", 120819, 7>>, <<"U+1D7F4", 120820, 8>>, <<"U+1D7F5", 120821, 9>>,
     <<"U+1D7F6", 120822, 0>>, <<"U+1D7F7", 120823, 1>>, <<"U+1D7F8", 120824, 2>>, <<"U+1D7F9", 120825, 3>>,
     <<"U+1D7FA", 120826, 4>>, <<"U+1D7FB", 120827, 5>>, <<"U+1D7FC", 120828, 6>>, <<"U+1D7FD", 120829, 7>>,
     <<"U+1D7FE", 120830, 8>>, <<"U+1D7FF", 120831, 9>>, <<"U+1E140", 123200, 0>>, <<"U+1E141", 123201, 1>>,
     <<"U+1E142", 123202, 2>>, <<"U+1E143", 123203, 3>>, <<"U+1E144", 123204, 4>>, <<"U+1E145", 123205, 5>>,
     <<"U+1E146", 123206, 6>>, <<"U+1E147", 123207, 7>>, <<"U+1E148", 123208, 8>>, <<"U+1E149", 123209, 9>>,
     <<"U+1E2F0", 123632, 0>>, <<"U+1E2F1", 123633, 1>>, <<"U+1E2F2", 123634, 2>>, <<"U+1E2F3", 123635, 3>>,
     <<"U+1E2F4", 123636, 4>>, <<"U+1E2F5", 123637, 5>>, <<"U+1E2F6", 123638, 6>>, <<"U+1E2F7", 123639, 7>>,
     <<"U+1E2F8", 123640, 8>>, <<"U+1E2F9", 123641, 9>>, <<"U+1E950", 125264, 0>>, <<"U+1E951", 125265, 1>>,
     <<"U+1E952", 125266, 2>>, <<"U+1E953", 125267, 3>>, <<"U+1E954", 125268, 4>>, <<"U+1E955", 125269, 5>>,
     <<"U+1E956", 125270, 6>>, <<"U+1E957", 125271, 7>>, <<"U+1E958", 125272, 8>>, <<"U+1E959", 125273, 9>>,
     <<"U+1FBF0", 130032, 0>>, <<"U+1FBF1", 130033, 1>>, <<"U+1FBF2", 130034, 2>>, <<"U+1FBF3", 130035, 3>>,
     <<"U+1FBF4", 130036, 4>>, <<"U+1FBF5", 130037, 5>>, <<"U+1FBF6", 130038, 6>>, <<"U+1FBF7", 130039, 7>>,
     <<"U+1FBF8", 130040, 8>>, <<"U+1FBF9", 130041, 9>> >>

Range(seq) == {seq[i] : i \in 1..Len(seq)}

SpaceChars == {p[1] : p \in Range(Whitespace)}
OtherDigitChars == {p[1] : p \in Range(OtherDigits)}
CodePoints ==
  Range(Punct) \cup Range(Whitespace) \cup {<<p[1], p[2]>> : p \in Range(OtherDigits)}

ord(c) ==
  CASE Occurs(Digits, c) -> 47 + IndexOf(Digits, c)
    [] Occurs(Upper, c)  -> 64 + IndexOf(Upper, c)
    [] Occurs(Lower, c)  -> 96 + IndexOf(Lower, c)
    [] OTHER -> (CHOOSE p \in CodePoints : p[1] = c)[2]

\* the value of a decimal digit
digit(c) ==
  IF Occurs(Digits, c) THEN IndexOf(Digits, c) - 1
  ELSE (CHOOSE p \in Range(OtherDigits) : p[1] = c)[3]

\* The character classes the pattern uses: \s, \d, [A-Z], [0-9], [01], '.'
InClass(cls, c) ==
  CASE cls = "s"     -> c \in SpaceChars
    [] cls = "d"     -> Occurs(Digits, c) \/ c \in OtherDigitChars
    [] cls = "A-Z"   -> Occurs(Upper, c)
    [] cls = "0-9"   -> Occurs(Digits, c)
    [] cls = "01"    -> c \in {"0", "1"}
    [] cls = "sign"  -> c \in {"+", "-"}
    [] cls = "."     -> c # "\n"

(***************************************************************************)
(* The regular expression, as the sequence of its items in the order of   *)
(* the source (whitespace of the re.VERBOSE text is not part of it).      *)
(* grp is the number of the capture group an item lies in, 0 for none.    *)
(***************************************************************************)
Lit(str)        == [k |-> "lit",   cls |-> "",  str |-> str,  grp |-> 0]
Star(cls)       == [k |-> "star",  cls |-> cls, str |-> <<>>, grp |-> 0]
LazyStar(cls)   == [k |-> "lazy",  cls |-> cls, str |-> <<>>, grp |-> 0]
Plus(cls, g)    == [k |-> "plus",  cls |-> cls, str |-> <<>>, grp |-> g]
One(cls, g)     == [k |-> "one",   cls |-> cls, str |-> <<>>, grp |-> g]
Chr(c, g)       == [k |-> "lit",   cls |-> "",  str |-> <<c>>, grp |-> g]
Num(g)          == [k |-> "num",   cls |-> "",  str |-> <<>>, grp |-> g]
RandOrPred      == [k |-> "alt",   cls |-> "",  str |-> <<>>, grp |-> 0]

pattern ==
  << Star("s"),                                            \* ^\s*
     LazyStar("."), Lit(<<"-">>), Plus("s", 0),              \* .*? -\s+
     Lit(<<"I","t","e","r",":">>), Plus("s", 0),                         \* Iter:\s+
     Plus("d", 1),                                         \* (\d+)        1=Step
     Star("s"), Lit(<<"/">>), Star("s"),                     \* \s*/\s*
     Plus("d", 2), Plus("s", 0),                           \* (\d+)\s+     2=Episode
     One("A-Z", 3), One("0-9", 3), Chr("-", 3),            \* ([A-Z][0-9]-
     One("A-Z", 3), One("0-9", 3),                         \*  [A-Z][0-9]) 3=Decision
     Plus("s", 0), Lit(<<"-">>), Plus("s", 0),               \* \s+ -\s+
     RandOrPred, Plus("s", 0),                             \* (?:Rand|Pred)\s+
     Lit(<<"E","p","s",":">>), Plus("s", 0), Num(4),                  \* Eps:\s+(num) 4=Eps
     Plus("s", 0), Lit(<<"l","r",":">>), Plus("s", 0), Num(5),     \* \s+lr:\s+(num) 5=lr
     Plus("s", 0), Lit(<<"R","e","t">>), Star("s"), Lit(<<"=">>),    \* \s+Ret\s*=
     Star("s"), Num(6),                                    \* \s*(num)     6=Ret
     Plus("s", 0), Lit(<<"L","a","s","t">>), Plus("s", 0),            \* \s+Last\s+
     Lit(<<"C","r","a","s","h">>), Star("s"), Lit(<<"=">>), Star("s"),     \* Crash\s*=\s*
     Plus("d", 7),                                         \* (\d+)        7=Last Crash
     Plus("s", 0), Lit(<<"t","=">>), Num(8),                    \* \s+t=(num)   8=t
     Plus("s", 0), Lit(<<"S","F">>), Star("s"), Lit(<<"=">>),     \* \s+SF\s*=
     Star("s"), Num(9),                                    \* \s*(num)     9=SF
     Plus("s", 0), Lit(<<"S","e","e","n","=">>), Star("s"),              \* \s+Seen=\s*
     One("01", 10),                                        \* ([01])       10=Found
     Plus("s", 0), Lit(<<"R","e","w","a","r","d",":">>), Star("s"),            \* \s+Reward:\s*
     Num(11) >>                                            \* (num)        11=Reward

NGroups == 11

(***************************************************************************)
(* Backtracking matcher.  A position is the index of the next character   *)
(* to read.  Ends(e, s, i) lists the positions at which item e can end    *)
(* when started at i, in the order the regex engine tries them (greedy:   *)
(* longest first, lazy: shortest first).                                   *)
(***************************************************************************)
Min(S) == CHOOSE x \in S : \A y \in S : x <= y

\* length of the longest run of characters of class cls starting at s[i]
Run(cls, s, i) ==
  LET stops == {j \in i..Len(s) : ~InClass(cls, s[j])}
  IN  IF stops = {} THEN Len(s) + 1 - i ELSE Min(stops) - i

StartsWith(s, i, str) ==
  /\ i + Len(str) - 1 <= Len(s)
  /\ \A j \in 1..Len(str) : s[i + j - 1] = str[j]

Down(hi, lo) == [j \in 1..(hi - lo + 1) |-> hi - j + 1]
Up(lo, hi)   == [j \in 1..(hi - lo + 1) |-> lo + j - 1]

\* the concatenation of the sequences ss[1], ss[2], ... in that order
Flatten(ss) ==
  LET lens  == [t \in 1..Len(ss) |-> Len(ss[t])] \o <<>>
      P     == UNION {{<<t, u>> : u \in 1..lens[t]} : t \in 1..Len(ss)}
      off   == [t \in 1..Len(ss) |-> Cardinality({p \in P : p[1] < t})] \o <<>>
      at(j) == CHOOSE t \in 1..Len(ss) : off[t] < j /\ j <= off[t] + lens[t]
  IN  [j \in 1..Cardinality(P) |-> ss[at(j)][j - off[at(j)]]] \o <<>>

\* [+-]?\d+(?:\.\d+)? : for each number of digits taken (longest first), first
\* every fraction '.'+digits (longest first), then no fraction
NumEnds(s, i) ==
  LET p == IF i <= Len(s) /\ InClass("sign", s[i]) THEN i + 1 ELSE i
      n == Run("d", s, p)
  IN  Flatten([k \in 1..n |->
        LET q  == p + (n - k + 1)
            nf == IF q <= Len(s) /\ s[q] = "." THEN Run("d", s, q + 1) ELSE 0
        IN  Down(q + 1 + nf, q + 2) \o <<q>>] \o <<>>)

Ends(e, s, i) ==
  CASE e.k = "lit"  -> IF StartsWith(s, i, e.str) THEN <<i + Len(e.str)>> ELSE <<>>
    [] e.k = "one"  -> IF i <= Len(s) /\ InClass(e.cls, s[i]) THEN <<i + 1>> ELSE <<>>
    [] e.k = "star" -> Down(i + Run(e.cls, s, i), i)
    [] e.k = "plus" -> Down(i + Run(e.cls, s, i), i + 1)
    [] e.k = "lazy" -> Up(i, i + Run(e.cls, s, i))
    [] e.k = "num"  -> NumEnds(s, i)
    [] e.k = "alt"  -> IF StartsWith(s, i, <<"R","a","n","d">>) \/ StartsWith(s, i, <<"P","r","e","d">>)
                       THEN <<i + 4>> ELSE <<>>

\* the ways to match the single item pat[lo] from position i
Matches0(pat, s, lo, hi, i) ==
  LET cands == Ends(pat[lo], s, i) \o <<>>
  IN  [n \in 1..Len(cands) |-> <<cands[n]>>] \o <<>>

RECURSIVE Matches(_, _, _, _, _)
\* Every way to match items lo..hi of pat from position i, each as the end
\* positions of those items, in the order the backtracking engine finds
\* them: the ways of the first half of the items in order, each continued by
\* the ways of the second half in order.
Matches(pat, s, lo, hi, i) ==
  IF lo = hi THEN Matches0(pat, s, lo, hi, i)
  ELSE LET mid   == (lo + hi) \div 2
           left  == Matches(pat, s, lo, mid, i)
           conts == [n \in 1..Len(left) |->
                      LET right == Matches(pat, s, mid + 1, hi, left[n][Len(left[n])])
                      IN  [u \in 1..Len(right) |-> left[n] \o right[u]] \o <<>>] \o <<>>
       IN  Flatten(conts)

\* the text of capture group g, given the end positions b of all items
Group(pat, s, b, g) ==
  LET items == {k \in 1..Len(pat) : pat[k].grp = g}
      first == CHOOSE k \in items : \A j \in items : k <= j
      last  == CHOOSE k \in items : \A j \in items : k >= j
      from  == IF first = 1 THEN 1 ELSE b[first - 1]
  IN  SubSeq(s, from, b[last] - 1)

None == <<>>

\* pattern.match(line): None, or m.groups() as 11 texts
pattern_match(text) ==
  LET found == Matches(pattern, text, 1, Len(pattern), 1)
  IN  IF found = <<>> THEN None
      ELSE [g \in 1..NGroups |-> Group(pattern, text, found[1], g)] \o <<>>

(***************************************************************************)
(* Conversions of matched text: int(), float(), bool(int()), str(bool).   *)
(***************************************************************************)
\* a bound of the model: the decimal tokens carry at most MaxFrac fraction
\* digits, and float() is computed exactly, in units of 10^-MaxFrac
MaxFrac == 3

RECURSIVE int(_)
\* int(text) for a text of decimal digits
int(str) ==
  IF str = <<>> THEN 0
  ELSE 10 * int(SubSeq(str, 1, Len(str) - 1)) + digit(str[Len(str)])

\* float(text) for a text [+-]?digits(.digits)?, in units of 10^-MaxFrac
float(str) ==
  LET neg   == str[1] = "-"
      body  == IF InClass("sign", str[1]) THEN Tail(str) ELSE str
      dots  == {i \in 1..Len(body) : body[i] = "."}
      whole == IF dots = {} THEN body ELSE SubSeq(body, 1, Min(dots) - 1)
      frac  == IF dots = {} THEN <<>> ELSE SubSeq(body, Min(dots) + 1, Len(body))
      mag   == int(whole) * 10^MaxFrac + int(frac) * 10^(MaxFrac - Len(frac))
  IN  IF neg THEN 0 - mag ELSE mag

Found_nonempty(str) == str # <<>>
\* bool(int(row[9]))
Found(str) == int(str) # 0

\* str(b) of a bool, as csv.writer renders it
bool_text(b) == IF b THEN <<"T","r","u","e">> ELSE <<"F","a","l","s","e">>

HEADER ==
  << <<"S","t","e","p">>, <<"E","p","i","s","o","d","e">>, <<"D","e","c","i","s","i","o","n">>, <<"E","p","s">>, <<"l","r">>, <<"R","e","t">>,
     <<"L","a","s","t"," ","C","r","a","s","h">>, <<"t">>, <<"S","F">>, <<"F","o","u","n","d">>, <<"R","e","w","a","r","d">> >>

\* the row writer.writerow(row) writes: every field as text
csv_row(values) ==
  [i \in 1..Len(values) |-> IF i = 10 THEN bool_text(values[10]) ELSE values[i]]

\* lines 61-66: m = pattern.match(line); None when there is no match, else
\* row = list(m.groups()) with row[9] = bool(int(row[9]))
row_of(groups) ==
  IF groups = None THEN None
  ELSE [g \in 1..NGroups |-> IF g = 10 THEN Found(groups[10]) ELSE groups[g]] \o <<>>

parse_line(text) == row_of(pattern_match(text))

(***************************************************************************)
(* Input lines.  A line is written from its tokens in the layout of the   *)
(* log producer (the layout of the example line of the specification):    *)
(*   <pre>Iter: <step>/<ep> <dec> - <mode> Eps: <eps> lr: <lr> Ret = <ret>*)
(*   Last Crash = <lc> t=<t> SF = <sf><seen> Reward: <rew><tail>          *)
(* where <seen> is the whole " Seen=d" token, so that it can be missing.  *)
(***************************************************************************)
Render(ls) ==
  ls.pre \o <<"I","t","e","r",":"," ">> \o ls.step \o <<"/">> \o ls.ep \o <<" ">> \o ls.dec \o <<" ","-"," ">>
    \o ls.mode \o <<" ","E","p","s",":"," ">> \o ls.eps \o <<" ","l","r",":"," ">> \o ls.lr \o <<" ","R","e","t"," ","="," ">> \o ls.ret
    \o <<" ","L","a","s","t"," ","C","r","a","s","h"," ","="," ">> \o ls.lc \o <<" ","t","=">> \o ls.t \o <<" ","S","F"," ","="," ">> \o ls.sf
    \o ls.seen \o <<" ","R","e","w","a","r","d",":"," ">> \o ls.rew \o ls.tail

\* the example line of the specification, with the '-' before "Iter:"
BaseLine ==
  [pre |-> <<".",".","."," ","-"," ">>, step |-> <<"1","0","0">>, ep |-> <<"3">>, dec |-> <<"A","1","-","B","2">>,
   mode |-> <<"R","a","n","d">>, eps |-> <<"0",".","1","0">>, lr |-> <<"0",".","0","0","1">>, ret |-> <<"5",".","0">>,
   lc |-> <<"2">>, t |-> <<"0",".","0","5">>, sf |-> <<"1",".","0">>, seen |-> <<" ","S","e","e","n","=","1">>,
   rew |-> <<"5","0",".","0">>, tail |-> <<>>]

\* the example line exactly as the specification prints it: no '-' before "Iter:"
ExampleAsWritten == [BaseLine EXCEPT !.pre = <<".",".","."," ">>]

NumSlots == {"eps", "lr", "ret", "t", "sf", "rew"}

GoodNums == {<<"-","U+0663",".","U+0665">>, <<"-","1">>, <<"+","2",".","5">>, <<"7">>, <<"0",".","1","2","5">>}
BadNums  == {<<"5","0",".","x">>, <<"5",".","0",".","1">>, <<".","5">>, <<"x","5">>, <<"5",".">>, <<"1","e","3">>, <<>>}

Alternatives(slot) ==
  CASE slot = "pre"  -> {<<"x"," ","-","\f">>, <<"U+00A0","y","-","U+000B","U+2003">>, <<".",".","."," ">>, <<>>, <<" "," ","x","-"," ">>, <<"-"," ">>, <<"a"," ","-"," ","I","t","e","r",":"," ","9","/","9"," ","b"," ","-"," ">>}
    [] slot = "step" -> {<<"U+0663","U+FF11">>, <<"7">>, <<"-","7">>}
    [] slot = "ep"   -> {<<"0","3">>, <<"1","0">>, <<"3",".","5">>}
    [] slot = "dec"  -> {<<"Z","9","-","Y","0">>, <<"a","1","-","B","2">>, <<"A","1","B","2">>}
    [] slot = "mode" -> {<<"P","r","e","d">>, <<"B","e","s","t">>}
    [] slot = "lc"   -> {<<"0">>, <<"-","2">>, <<"2",".","5">>}
    [] slot = "seen" -> {<<" ","S","e","e","n","=","0">>, <<>>, <<" ","S","e","e","n","=","2">>, <<" ","S","e","e","n","=","1","0">>}
    [] slot = "tail" -> {<<"\n">>, <<" ","t","r","a","i","l","i","n","g"," ","t","e","x","t","\n">>}
    [] slot \in NumSlots -> GoodNums \cup BadNums

Slots == {"pre", "step", "ep", "dec", "mode", "lc", "seen", "tail"} \cup NumSlots

\* the example line and every line that differs from it in one token
LineSpecs ==
  {BaseLine} \cup
  UNION {{[BaseLine EXCEPT ![slot] = tok] : tok \in Alternatives(slot)} : slot \in Slots}

SpecOf(text) == CHOOSE ls \in LineSpecs : Render(ls) = text

(***************************************************************************)
(* The grammar of section 4.1, stated on the tokens of a line.            *)
(***************************************************************************)
IsDigits(str) == str # <<>> /\ \A i \in 1..Len(str) : InClass("d", str[i])

\* [+-]?digits(.digits)?
IsDecimal(str) ==
  /\ str # <<>>
  /\ LET body == IF InClass("sign", str[1]) THEN Tail(str) ELSE str
     IN  \/ IsDigits(body)
         \/ \E k \in 1..Len(body) :
              /\ body[k] = "."
              /\ IsDigits(SubSeq(body, 1, k - 1))
              /\ IsDigits(SubSeq(body, k + 1, Len(body)))

IsDecision(str) ==
  /\ Len(str) = 5
  /\ InClass("A-Z", str[1]) /\ InClass("0-9", str[2]) /\ str[3] = "-"
  /\ InClass("A-Z", str[4]) /\ InClass("0-9", str[5])

\* the prefix ends in the '-' and whitespace that precede "Iter:"
IsPrefix(str) ==
  \E k \in 1..Len(str) :
     /\ str[k] = "-"
     /\ k < Len(str)
     /\ \A j \in (k + 1)..Len(str) : InClass("s", str[j])
     /\ \A j \in 1..(k - 1) : str[j] # "\n"

OtherTokensOk(ls) ==
  /\ IsPrefix(ls.pre) /\ IsDigits(ls.step) /\ IsDigits(ls.ep) /\ IsDecision(ls.dec)
  /\ ls.mode \in {<<"R","a","n","d">>, <<"P","r","e","d">>} /\ IsDigits(ls.lc)
  /\ ls.seen \in {<<" ","S","e","e","n","=","0">>, <<" ","S","e","e","n","=","1">>}

SatisfiesGrammar(ls) == OtherTokensOk(ls) /\ \A slot \in NumSlots : IsDecimal(ls[slot])

\* the line would match except that exactly one numeric token is malformed
OneBadNumber(ls) ==
  /\ OtherTokensOk(ls) /\ ls.lc = BaseLine.lc
  /\ Cardinality({slot \in NumSlots : ~IsDecimal(ls[slot])}) = 1

OneBadLastCrash(ls) ==
  /\ OtherTokensOk([ls EXCEPT !.lc = BaseLine.lc]) /\ ~IsDigits(ls.lc)
  /\ \A slot \in NumSlots : IsDecimal(ls[slot])

\* the record the specification expects of a line that satisfies the grammar
Fields(ls) ==
  << ls.step, ls.ep, ls.dec, ls.eps, ls.lr, ls.ret, ls.lc, ls.t, ls.sf,
     ls.seen = <<" ","S","e","e","n","=","1">>, ls.rew >>

(***************************************************************************)
(* The best-per-episode dictionary.  A Python dict keeps insertion order: *)
(* it is a sequence of entries with distinct keys, a stored key keeping   *)
(* its place when its value is replaced.                                   *)
(***************************************************************************)
KeyIndex(dict, key) ==
  IF \E k \in 1..Len(dict) : dict[k].key = key
  THEN CHOOSE k \in 1..Len(dict) : dict[k].key = key
  ELSE 0

DictSet(dict, key, val) ==
  IF KeyIndex(dict, key) = 0
  THEN Append(dict, [key |-> key, val |-> val])
  ELSE [dict EXCEPT ![KeyIndex(dict, key)].val = val]

Keys(dict) == {dict[k].key : k \in 1..Len(dict)}

replaces_ge(ret_val, stored) == ret_val >= stored
replaces_lt(ret_val, stored) == ret_val < stored
\* line 73: ret_val > best_by_episode[ep][0]
replaces(ret_val, stored) == ret_val > stored

\* lines 70-74: the update of best_by_episode for a matched row
update(best, r) ==
  LET ep      == r[2]
      ret_val == float(r[6])
      k       == KeyIndex(best, ep)
  IN  IF k = 0 \/ replaces(ret_val, best[k].val[1])
      THEN DictSet(best, ep, <<ret_val, r>>)
      ELSE best

\* sorted(seq, key=...): ascending, <<i, j>> \in less saying that the key of
\* seq[i] is less than the key of seq[j]; equal keys in their given order
Sorted(seq, less) ==
  LET rank(i) == Cardinality({j \in 1..Len(seq) :
                     <<j, i>> \in less \/ (<<i, j>> \notin less /\ j < i)})
  IN  [p \in 1..Len(seq) |-> seq[CHOOSE i \in 1..Len(seq) : rank(i) = p - 1]]

Pairs(seq) == (1..Len(seq)) \X (1..Len(seq))

\* text order of Python str: by code point, a proper prefix first
StrLess(a, b) ==
  \E k \in 1..(Len(b)) :
     /\ \A j \in 1..(k - 1) : j <= Len(a) /\ a[j] = b[j]
     /\ \/ k = Len(a) + 1
        \/ k <= Len(a) /\ ord(a[k]) < ord(b[k])

\* line 81: key=lambda kv: int(kv[0])
ByEpisodeNumber(best) == {p \in Pairs(best) : int(best[p[1]].key) < int(best[p[2]].key)}
\* lines 79-82: the rows of best_results.csv
best_rows(best) ==
  LET ordered == Sorted(best, ByEpisodeNumber(best))
  IN  <<HEADER>> \o [i \in 1..Len(ordered) |-> csv_row(ordered[i].val[2])]

(***************************************************************************)
(* .cfg files and configparser.  A file is the sequence of its lines.  A  *)
(* line is a section header "[name]", an option "key = value", a comment, *)
(* a blank line, or text that is neither a header nor an option; ind is   *)
(* the column of its first character, text the line without the spaces    *)
(* around it.  Values hold no '%' (no interpolation).                      *)
(***************************************************************************)
SectionLine(name) ==
  [k |-> "section", ind |-> 0, name |-> name, value |-> <<>>,
   text |-> <<"[">> \o name \o <<"]">>]
OptionLine(key, val) ==
  [k |-> "option", ind |-> 0, name |-> key, value |-> val,
   text |-> IF val = <<>> THEN key \o <<" ","=">> ELSE key \o <<" ","="," ">> \o val]
CommentLine ==
  [k |-> "comment", ind |-> 0, name |-> <<>>, value |-> <<>>, text |-> <<"#"," ","c","o","m","m","e","n","t">>]
BlankLine ==
  [k |-> "blank", ind |-> 0, name |-> <<>>, value |-> <<>>, text |-> <<>>]
JunkLine ==
  [k |-> "junk", ind |-> 0, name |-> <<>>, value |-> <<>>, text |-> <<"j","u","n","k">>]
\* the same line, written two columns in
Indented(ln) == [ln EXCEPT !.ind = 2]

DEFAULTSECT == <<"D","E","F","A","U","L","T">>

RECURSIVE lower(_)
lower(str) ==
  IF str = <<>> THEN <<>>
  ELSE <<IF Occurs(Upper, str[1]) THEN Lower[IndexOf(Upper, str[1])] ELSE str[1]>>
         \o lower(Tail(str))

optionxform_lower(key) == lower(key)
\* line 95: parser.optionxform = str, the key is kept as written
optionxform(key) == key

NoSection == <<>>
NoOption == <<>>
\* _read's locals on a fresh parser: cursect, optname, indent_level, the
\* ParsingError e set up for the end of the file, and the exception raised
EmptyParser ==
  [sections |-> <<>>, defaults |-> <<>>, cur |-> NoSection, opt |-> NoOption,
   indent |-> 0, pending |-> FALSE, err |-> ""]

\* cursect[optname].append(text): one more part of the value of the option in hand
append_value(p, text) ==
  IF p.cur = DEFAULTSECT
  THEN [p EXCEPT !.defaults[KeyIndex(p.defaults, p.opt)].val = Append(@, text)]
  ELSE LET k == KeyIndex(p.sections, p.cur)
       IN  [p EXCEPT !.sections[k].val[KeyIndex(p.sections[k].val, p.opt)].val =
                        Append(@, text)]

\* one line of a file read by a strict ConfigParser.  A duplicate section,
\* a duplicate option and a line before any header raise at once; text
\* that is no header and no option sets up ParsingError and reading goes on.
read_line(p, ln) ==
  IF p.err # "" \/ ln.k = "comment" THEN p
  ELSE IF ln.k = "blank"
  THEN IF p.cur # NoSection /\ p.opt # NoOption THEN append_value(p, <<>>) ELSE p
  ELSE IF p.cur # NoSection /\ p.opt # NoOption /\ ln.ind > p.indent
  THEN append_value(p, ln.text)
  ELSE LET q == [p EXCEPT !.indent = ln.ind]
       IN  IF ln.k = "section"
           THEN IF ln.name = DEFAULTSECT
                THEN [q EXCEPT !.cur = DEFAULTSECT, !.opt = NoOption]
                ELSE IF KeyIndex(q.sections, ln.name) # 0
                THEN [q EXCEPT !.err = "DuplicateSectionError"]
                ELSE [q EXCEPT !.sections = DictSet(@, ln.name, <<>>),
                               !.cur = ln.name, !.opt = NoOption]
           ELSE IF q.cur = NoSection
           THEN [q EXCEPT !.err = "MissingSectionHeaderError"]
           ELSE IF ln.k = "junk" THEN [q EXCEPT !.pending = TRUE]
           ELSE LET key  == optionxform(ln.name)
                    here == IF q.cur = DEFAULTSECT THEN q.defaults
                            ELSE q.sections[KeyIndex(q.sections, q.cur)].val
                IN  IF KeyIndex(here, key) # 0
                    THEN [q EXCEPT !.err = "DuplicateOptionError"]
                    ELSE IF q.cur = DEFAULTSECT
                    THEN [q EXCEPT !.defaults = DictSet(@, key, <<ln.value>>),
                                   !.opt = key]
                    ELSE [q EXCEPT !.sections[KeyIndex(q.sections, q.cur)].val =
                                      DictSet(@, key, <<ln.value>>),
                                   !.opt = key]

RECURSIVE read_lines(_, _)
read_lines(p, lines) ==
  IF lines = <<>> THEN p ELSE read_lines(read_line(p, lines[1]), Tail(lines))

RECURSIVE join_inner(_)
\* '\n'.join(parts)
join_inner(parts) ==
  IF Len(parts) = 1 THEN parts[1]
  ELSE join_inner(SubSeq(parts, 1, Len(parts) - 1)) \o <<"\n">> \o parts[Len(parts)]

RECURSIVE join(_)
\* '\n'.join(parts).rstrip(), every part being stripped already: the parts
\* without the empty ones at the end, a newline between two parts
join(parts) ==
  IF parts = <<>> THEN <<>>
  ELSE IF parts[Len(parts)] = <<>> THEN join(SubSeq(parts, 1, Len(parts) - 1))
  ELSE IF Len(parts) = 1 THEN parts[1]
  ELSE join_inner(SubSeq(parts, 1, Len(parts) - 1)) \o <<"\n">> \o parts[Len(parts)]

\* _join_multiline_values on one dict of options
join_values(options) ==
  [i \in 1..Len(options) |-> [key |-> options[i].key, val |-> join(options[i].val)]]

\* line 97: parser.read(cfg_file) on a fresh parser; err is the exception
\* it raises, ParsingError only after the last line
parser_read(file) ==
  LET p == read_lines(EmptyParser, file)
  IN  [sections |-> [i \in 1..Len(p.sections) |->
                       [key |-> p.sections[i].key, val |-> join_values(p.sections[i].val)]],
       defaults |-> join_values(p.defaults),
       err      |-> IF p.err # "" THEN p.err
                    ELSE IF p.pending THEN "ParsingError" ELSE ""]

RECURSIVE DictUpdate(_, _)
\* dict.update: the entries of src set into dst, in order
DictUpdate(dst, src) ==
  IF src = <<>> THEN dst
  ELSE DictUpdate(DictSet(dst, src[1].key, src[1].val), Tail(src))

\* parser.items(section): the defaults, overridden by the section's own options
items(p, k) == DictUpdate(p.defaults, p.sections[k].val)

Dot == <<".">>

\* lines 98-102 for one parsed file: config_params[f"{section}.{key}"] = val
RECURSIVE add_sections(_, _, _)
add_sections(params, p, k) ==
  IF k > Len(p.sections) THEN params
  ELSE LET its   == items(p, k)
           named == [i \in 1..Len(its) |->
                       [key |-> p.sections[k].key \o Dot \o its[i].key,
                        val |-> its[i].val]]
       IN  add_sections(DictUpdate(params, named), p, k + 1)

\* line 111: sorted(config_params.items()), by parameter name
ByParameter(params) == {p \in Pairs(params) : StrLess(params[p[1]].key, params[p[2]].key)}
\* lines 109-112: the rows of config.csv
config_rows(params) ==
  LET ordered == Sorted(params, ByParameter(params))
  IN  << <<<<"p","a","r","a","m","e","t","e","r">>, <<"v","a","l","u","e">>>> >>
        \o [i \in 1..Len(ordered) |-> <<ordered[i].key, ordered[i].val>>]

(***************************************************************************)
(* Bounds of the model and the input catalogues.                           *)
(***************************************************************************)
MaxRuns  == 2   \* run directories under DATA_DIR
MaxFiles == 4   \* *.txt files a run directory may hold, from the pool below
MaxInput == 3   \* files opened in one execution of main

LogLine(step, ep, ret, seen, tail) ==
  Render([BaseLine EXCEPT !.pre = <<"x"," ","-"," ">>, !.step = step, !.ep = ep, !.ret = ret,
                          !.seen = seen, !.tail = tail])

\* the *.txt files: Episode "3" with Returns 5.0 and 8.2; Episode "3" with
\* Return 8.20; Episode "10" and a line without its "Seen=" token; Episode
\* "03" on a last line without newline; an empty file
FilePool ==
  << << "a.txt", << LogLine(<<"1">>, <<"3">>, <<"5",".","0">>, <<" ","S","e","e","n","=","1">>, <<"\n">>),
                    LogLine(<<"2">>, <<"3">>, <<"8",".","2">>, <<" ","S","e","e","n","=","1">>, <<"\n">>) >> >>,
     << "b.txt", << LogLine(<<"3">>, <<"3">>, <<"8",".","2","0">>, <<" ","S","e","e","n","=","0">>, <<"\n">>) >> >>,
     << "c.txt", << LogLine(<<"5">>, <<"1","0">>, <<"-","1">>, <<" ","S","e","e","n","=","1">>, <<"\n">>),
                    LogLine(<<"6">>, <<"3">>, <<"9",".","9">>, <<>>, <<"\n">>) >> >>,
     << "d.txt", << LogLine(<<"4">>, <<"0","3">>, <<"9",".","1">>, <<" ","S","e","e","n","=","1">>, <<>>) >> >>,
     << "e.txt", << >> >> >>

TxtNames == {FilePool[i][1] : i \in 1..MaxFiles}
NameIndex(name) == CHOOSE i \in 1..Len(FilePool) : FilePool[i][1] = name
Content(name) == FilePool[NameIndex(name)][2]

LogLines == UNION {{FilePool[i][2][j] : j \in 1..Len(FilePool[i][2])} : i \in 1..Len(FilePool)}

\* pattern.match on the lines of the catalogue, computed once
MatchedLines == {<<text, pattern_match(text)>> : text \in LogLines}
match_of(text) == (CHOOSE p \in MatchedLines : p[1] = text)[2]

\* the .cfg files a run directory may hold
CfgFiles ==
  { << SectionLine(<<"s">>), OptionLine(<<"k","e","y">>, <<"2">>), OptionLine(<<"K","e","y">>, <<"1">>) >>,
    << CommentLine, SectionLine(<<"s">>), OptionLine(<<"k","e","y">>, <<"7">>) >>,
    << SectionLine(DEFAULTSECT), OptionLine(<<"a">>, <<"1">>),
       SectionLine(<<"s">>), OptionLine(<<"B">>, <<"2">>) >>,
    << SectionLine(<<"t">>), OptionLine(<<"k">>, <<"1">>), Indented(JunkLine), BlankLine >>,
    << SectionLine(<<"s">>), JunkLine, OptionLine(<<"k">>, <<"1">>) >>,
    << SectionLine(<<"s">>), JunkLine, SectionLine(<<"s">>) >>,
    << CommentLine >> }

(***************************************************************************)
(* State.                                                                  *)
(***************************************************************************)
VARIABLES
  data_dir,         \* DATA_DIR: whether it is a directory, and how many run
                    \* directories it holds
  run,              \* main: the run directory in hand, in sorted order (0: none yet)
  pc,               \* where the program is
  error,            \* the exception that ended main, "" for none
  txt_seen,         \* this run: the *.txt files glob has yielded, <<name, lines read>>
  cfg_seen,         \* this run: the .cfg files glob has yielded and parser.read has read
  total,            \* parse_one_run: total
  parsed,           \* parse_one_run: parsed
  best_by_episode,  \* parse_one_run: best_by_episode
  config_params,    \* parse_one_run: config_params
  line,             \* parse_one_run: the line in hand
  row,              \* parse_one_run: None, or the row of the line in hand
  output,           \* OUTPUT_DIR: per run, the rows of the three csv files
  nread             \* files opened so far

vars == << data_dir, run, pc, error, txt_seen, cfg_seen, total, parsed,
           best_by_episode, config_params, line, row, output, nread >>

Absent == <<>>   \* a file that does not exist: not even a header row
NoOutput == [trainlog |-> Absent, best |-> Absent, config |-> Absent]

Locals0 ==
  /\ txt_seen = <<>> /\ cfg_seen = <<>> /\ total = 0 /\ parsed = 0
  /\ best_by_episode = <<>> /\ config_params = <<>> /\ line = <<>> /\ row = None

Init ==
  /\ data_dir \in {[is_dir |-> FALSE, runs |-> 0]}
                    \cup {[is_dir |-> TRUE, runs |-> n] : n \in 0..MaxRuns}
  /\ run = 0 /\ pc = "main" /\ error = "" /\ nread = 0
  /\ output = [r \in 1..MaxRuns |-> NoOutput]
  /\ Locals0

(***************************************************************************)
(* main, lines 120-134.                                                    *)
(***************************************************************************)
\* lines 125-127: DATA_DIR is missing, main prints and returns
MainNoData ==
  /\ pc = "main" /\ ~data_dir.is_dir
  /\ pc' = "finished"
  /\ UNCHANGED << data_dir, run, error, txt_seen, cfg_seen, total, parsed,
                  best_by_episode, config_params, line, row, output, nread >>

\* lines 129-134 and 42-54: the next run directory; parse_one_run starts,
\* opens trainlog.csv for writing and writes the header
MainNextRun ==
  /\ pc = "main" /\ data_dir.is_dir /\ run < data_dir.runs
  /\ run' = run + 1
  /\ pc' = "txt_loop"
  /\ txt_seen' = <<>> /\ cfg_seen' = <<>> /\ total' = 0 /\ parsed' = 0
  /\ best_by_episode' = <<>> /\ config_params' = <<>> /\ line' = <<>> /\ row' = None
  /\ output' = [output EXCEPT ![run + 1].trainlog = <<HEADER>>]
  /\ UNCHANGED << data_dir, error, nread >>

\* line 129: no run directory is left, main returns
MainDone ==
  /\ pc = "main" /\ data_dir.is_dir /\ run = data_dir.runs
  /\ pc' = "finished"
  /\ UNCHANGED << data_dir, run, error, txt_seen, cfg_seen, total, parsed,
                  best_by_episode, config_params, line, row, output, nread >>

(***************************************************************************)
(* parse_one_run, lines 57-74: the log pass.                               *)
(***************************************************************************)
Opened == {txt_seen[i][1] : i \in 1..Len(txt_seen)}

\* lines 57-58: glob yields one more *.txt file, in no particular order, and
\* it opens
OpenTxtFile ==
  /\ pc = "txt_loop" /\ nread < MaxInput
  /\ \E name \in TxtNames \ Opened : txt_seen' = Append(txt_seen, <<name, <<>> >>)
  /\ pc' = "line_loop"
  /\ nread' = nread + 1
  /\ UNCHANGED << data_dir, run, error, cfg_seen, total, parsed, best_by_episode,
                  config_params, line, row, output >>

\* line 58: glob yields a file that cannot be opened; open raises, nothing in
\* parse_one_run or main catches it
OpenTxtFileFails ==
  /\ pc = "txt_loop"
  /\ TxtNames \ Opened # {}
  /\ pc' = "crashed" /\ error' = "PermissionError"
  /\ UNCHANGED << data_dir, run, txt_seen, cfg_seen, total, parsed, best_by_episode,
                  config_params, line, row, output, nread >>

next_parsed_always(n, r) == n + 1
\* lines 62-63 and 68: parsed counts the matched lines only
next_parsed(n, r) == IF r = None THEN n ELSE n + 1

\* the open file and the lines read from it
Current == txt_seen[Len(txt_seen)]

\* lines 59-74: one line of the open file
ReadLine ==
  /\ pc = "line_loop" /\ Len(Current[2]) < Len(Content(Current[1]))
  /\ LET text == Content(Current[1])[Len(Current[2]) + 1]
     IN  /\ line' = text
         /\ row' = row_of(match_of(text))
         /\ txt_seen' = [txt_seen EXCEPT ![Len(txt_seen)][2] = Append(@, text)]
  /\ total' = total + 1
  /\ parsed' = next_parsed(parsed, row')
  /\ IF row' = None
     THEN UNCHANGED << best_by_episode, output >>
     ELSE /\ output' = [output EXCEPT ![run].trainlog = Append(@, csv_row(row'))]
          /\ best_by_episode' = update(best_by_episode, row')
  /\ UNCHANGED << data_dir, run, pc, error, cfg_seen, config_params, nread >>

\* line 59: the open file has no more lines
EndOfFile ==
  /\ pc = "line_loop" /\ Len(Current[2]) = Len(Content(Current[1]))
  /\ pc' = "txt_loop"
  /\ UNCHANGED << data_dir, run, error, txt_seen, cfg_seen, total, parsed,
                  best_by_episode, config_params, line, row, output, nread >>

WriteBest_late ==
  /\ pc = "txt_loop"
  /\ pc' = "cfg_loop"
  /\ UNCHANGED << data_dir, run, error, txt_seen, cfg_seen, total, parsed,
                  best_by_episode, config_params, line, row, output, nread >>
\* lines 57 and 76-88: glob yields no more *.txt file; trainlog.csv is closed,
\* best_results.csv is written, the .cfg pass starts
WriteBest ==
  /\ pc = "txt_loop"
  /\ output' = [output EXCEPT ![run].best = best_rows(best_by_episode)]
  /\ pc' = "cfg_loop"
  /\ UNCHANGED << data_dir, run, error, txt_seen, cfg_seen, total, parsed,
                  best_by_episode, config_params, line, row, nread >>

(***************************************************************************)
(* parse_one_run, lines 91-117: the .cfg pass.                             *)
(***************************************************************************)
\* lines 91-102: one more .cfg file, which configparser can parse
ReadCfgFile ==
  /\ pc = "cfg_loop" /\ nread < MaxInput
  /\ \E file \in CfgFiles :
       /\ parser_read(file).err = ""
       /\ cfg_seen' = Append(cfg_seen, file)
       /\ config_params' = add_sections(config_params, parser_read(file), 1)
  /\ nread' = nread + 1
  /\ UNCHANGED << data_dir, run, pc, error, txt_seen, total, parsed,
                  best_by_episode, line, row, output >>

\* line 97: one more .cfg file, which configparser cannot parse; parser.read
\* raises, nothing in parse_one_run or main catches it
ReadCfgFileFails ==
  /\ pc = "cfg_loop" /\ nread < MaxInput
  /\ \E file \in CfgFiles :
       /\ parser_read(file).err # ""
       /\ cfg_seen' = Append(cfg_seen, file)
       /\ error' = parser_read(file).err
  /\ pc' = "crashed"
  /\ nread' = nread + 1
  /\ UNCHANGED << data_dir, run, txt_seen, total, parsed, best_by_episode,
                  config_params, line, row, output >>

\* lines 91 and 105-117: no more .cfg file; config.csv is written when a
\* parameter was found, and parse_one_run returns to main
WriteConfig ==
  /\ pc = "cfg_loop"
  /\ output' = IF config_params # <<>>
               THEN [output EXCEPT ![run].config = config_rows(config_params)]
               ELSE output
  /\ pc' = "main"
  /\ UNCHANGED << data_dir, run, error, txt_seen, cfg_seen, total, parsed,
                  best_by_episode, config_params, line, row, nread >>

Next ==
  \/ MainNoData
  \/ MainNextRun
  \/ MainDone
  \/ OpenTxtFile
  \/ OpenTxtFileFails
  \/ ReadLine
  \/ EndOfFile
  \/ WriteBest
  \/ ReadCfgFile
  \/ ReadCfgFileFails
  \/ WriteConfig

Spec == Init /\ [][Next]_vars

(***************************************************************************)
(* The extractor alone: one line of the family LineSpecs is read and      *)
(* lines 61-66 are applied to it.                                          *)
(***************************************************************************)
InitExtract ==
  /\ data_dir = [is_dir |-> TRUE, runs |-> 0] /\ run = 0 /\ pc = "extract" /\ error = "" /\ nread = 0
  /\ output = [r \in 1..MaxRuns |-> NoOutput]
  /\ txt_seen = <<>> /\ cfg_seen = <<>> /\ total = 0 /\ parsed = 0
  /\ best_by_episode = <<>> /\ config_params = <<>> /\ row = None
  /\ line \in {Render(ls) : ls \in LineSpecs}

Extract ==
  /\ pc = "extract"
  /\ row' = parse_line(line)
  /\ pc' = "extracted"
  /\ UNCHANGED << data_dir, run, error, txt_seen, cfg_seen, total, parsed,
                  best_by_episode, config_params, line, output, nread >>

NextExtract == Extract

SpecExtract == InitExtract /\ [][NextExtract]_vars

(***************************************************************************)
(* What a run has read, for the statements below.                          *)
(***************************************************************************)
\* the lines of the files, in the order of the files
LinesOf(files) == Flatten([i \in 1..Len(files) |-> files[i][2]] \o <<>>)

\* the rows of the matched lines among them, in order
RowsOf(lines) ==
  SelectSeq([i \in 1..Len(lines) |-> row_of(match_of(lines[i]))] \o <<>>,
            LAMBDA r : r # None)

\* the full-record stream of the run in hand so far
Stream == RowsOf(LinesOf(txt_seen))

RECURSIVE Reduce(_, _)
\* best_by_episode after the rows, updated one by one from the empty dict
Reduce(rows, n) ==
  IF n = 0 THEN <<>> ELSE update(Reduce(rows, n - 1), rows[n])

\* the two tables of a run whose *.txt files are enumerated as files
TrainlogOf(files) ==
  LET rows == RowsOf(LinesOf(files))
  IN  <<HEADER>> \o [i \in 1..Len(rows) |-> csv_row(rows[i])]
BestOf(files) ==
  LET rows == RowsOf(LinesOf(files)) IN best_rows(Reduce(rows, Len(rows)))

DataRows(csv) == Tail(csv)

Max(S) == CHOOSE x \in S : \A y \in S : x >= y

(***************************************************************************)
(* C1.  For every Episode key of best_by_episode, the stored row is the    *)
(* first record of the stream, in stream order across all files, whose     *)
(* Return (as float) equals the largest Return among the records of that   *)
(* key; and every key of the stream is stored.                             *)
(***************************************************************************)
C1_FirstMaxWins ==
  /\ Keys(best_by_episode) = {Stream[i][2] : i \in 1..Len(Stream)}
  /\ \A k \in 1..Len(best_by_episode) :
       LET ofKey == {i \in 1..Len(Stream) : Stream[i][2] = best_by_episode[k].key}
           top   == Max({float(Stream[i][6]) : i \in ofKey})
           first == Min({i \in ofKey : float(Stream[i][6]) = top})
       IN  best_by_episode[k].val[2] = Stream[first]

\* three records of one Episode, in two files, with Returns 5.0 < 8.2 = 8.20:
\* the second is stored
C1_Witness ==
  /\ Len(txt_seen) = 2 /\ Len(Stream) = 3
  /\ Stream[1][2] = Stream[2][2] /\ Stream[2][2] = Stream[3][2]
  /\ float(Stream[1][6]) < float(Stream[2][6])
  /\ float(Stream[2][6]) = float(Stream[3][6])
  /\ Stream[2] # Stream[3]
  /\ best_by_episode[1].val[2] = Stream[2]

(***************************************************************************)
(* C2.  Once best_results.csv is written, its rows are in ascending order  *)
(* of int(Episode) with exactly one row per distinct Episode number seen   *)
(* in a matched line: none missing, none repeated.                         *)
(***************************************************************************)
C2_OneRowPerEpisodeNumber ==
  (run >= 1 /\ output[run].best # Absent) =>
    LET rows == DataRows(output[run].best)
    IN  /\ \A i \in 1..(Len(rows) - 1) : int(rows[i][2]) < int(rows[i + 1][2])
        /\ {int(rows[i][2]) : i \in 1..Len(rows)}
             = {int(Stream[i][2]) : i \in 1..Len(Stream)}

(***************************************************************************)
(* C5.  At every point parsed <= total, total counts the lines read, the   *)
(* data rows of trainlog.csv are the rows of the matched lines in the      *)
(* order read, and there are parsed of them; a step that reads a line adds *)
(* one to total; when the line matches it adds one to parsed and appends   *)
(* one row; when it does not, parsed, trainlog.csv and best_by_episode are *)
(* unchanged, total - parsed grows by one, and the loop goes on.           *)
(***************************************************************************)
C5_Counts ==
  /\ parsed <= total
  /\ total = Len(LinesOf(txt_seen))
  /\ run >= 1 =>
       /\ Len(DataRows(output[run].trainlog)) = parsed
       /\ output[run].trainlog = TrainlogOf(txt_seen)

C5_LineStep ==
  (run' = run /\ LinesOf(txt_seen') # LinesOf(txt_seen)) =>
    /\ total' = total + 1
    /\ pc' = "line_loop"
    /\ IF match_of(line') # None
       THEN /\ parsed' = parsed + 1
            /\ Len(output'[run].trainlog) = Len(output[run].trainlog) + 1
            /\ output'[run].trainlog = Append(output[run].trainlog, csv_row(row'))
       ELSE /\ parsed' = parsed
            /\ output' = output
            /\ best_by_episode' = best_by_episode
            /\ total' - parsed' = (total - parsed) + 1

\* C5: the counts hold at every point, and every step that reads a line has
\* the effects stated above
C5_YieldAccounting == []C5_Counts /\ [][C5_LineStep]_vars

\* a matched line, then a line without "Seen=": one row, one discard
C5_Witness ==
  /\ pc = "line_loop" /\ total = 2 /\ parsed = 1
  /\ match_of(line) = None
  /\ Len(DataRows(output[run].trainlog)) = 1

(***************************************************************************)
(* C6.  When main has stopped, every run directory other than one whose    *)
(* own processing failed has its output tables written.                    *)
(***************************************************************************)
C6_FailureIsolated ==
  pc \in {"finished", "crashed"} =>
    \A r \in 1..data_dir.runs :
       (pc = "finished" \/ r # run) =>
          output[r].trainlog # Absent /\ output[r].best # Absent

\* the errors parser.read raises on a file that is not ini syntax
CfgErrors == {"ParsingError", "MissingSectionHeaderError",
              "DuplicateSectionError", "DuplicateOptionError"}

(***************************************************************************)
(* C7.  When a .cfg file cannot be parsed, the exception is raised after   *)
(* the log pass: trainlog.csv and best_results.csv of the run hold what    *)
(* the *.txt files alone determine, and config.csv is not written.         *)
(***************************************************************************)
C7_CfgErrorAfterLogPass ==
  (pc = "crashed" /\ error \in CfgErrors) =>
    /\ output[run].trainlog = TrainlogOf(txt_seen)
    /\ output[run].best = BestOf(txt_seen)
    /\ output[run].config = Absent

C7_Witness ==
  /\ pc = "crashed" /\ error \in CfgErrors
  /\ parsed = 2 /\ Len(cfg_seen) = 1
  /\ Len(output[run].trainlog) = 3 /\ Len(output[run].best) >= 2

\* the files in the order of their names
ByName(files) == {p \in Pairs(files) : NameIndex(files[p[1]][1]) < NameIndex(files[p[2]][1])}

(***************************************************************************)
(* C8.  The tables of a run do not depend on the order in which glob       *)
(* yields the *.txt files: they are the tables of the same files taken in  *)
(* the order of their names.                                               *)
(***************************************************************************)
C8_OrderIndependent ==
  (run >= 1 /\ output[run].best # Absent) =>
    /\ output[run].trainlog = TrainlogOf(Sorted(txt_seen, ByName(txt_seen)))
    /\ output[run].best = BestOf(Sorted(txt_seen, ByName(txt_seen)))

\* the Return stored for an Episode key
StoredReturn(best, ep) == best[KeyIndex(best, ep)].val[1]

(***************************************************************************)
(* C10.  best_by_episode only grows and only improves within a run: no key *)
(* is lost, the stored Return of a key never decreases, the stored Return  *)
(* is float() of the Ret field of the stored row, and the stored row is a  *)
(* record already in the full-record stream and in trainlog.csv.           *)
(***************************************************************************)
C10_Stored ==
  \A k \in 1..Len(best_by_episode) :
     /\ best_by_episode[k].val[1] = float(best_by_episode[k].val[2][6])
     /\ \E i \in 1..Len(Stream) : Stream[i] = best_by_episode[k].val[2]
     /\ \E i \in 1..Len(DataRows(output[run].trainlog)) :
          DataRows(output[run].trainlog)[i] = csv_row(best_by_episode[k].val[2])

C10_Step ==
  run' = run =>
    /\ Keys(best_by_episode) \subseteq Keys(best_by_episode')
    /\ \A ep \in Keys(best_by_episode) :
         StoredReturn(best_by_episode', ep) >= StoredReturn(best_by_episode, ep)

\* C10: the stored entries are sound at every point, and no step of a run
\* loses a key or lowers a stored Return
C10_GrowsAndImproves == []C10_Stored /\ [][C10_Step]_vars

\* two keys, one of them improved: its stored row is not its first record
C10_Witness ==
  /\ Len(best_by_episode) = 2
  /\ \E k \in 1..2 :
       best_by_episode[k].val[2]
         # Stream[Min({i \in 1..Len(Stream) : Stream[i][2] = best_by_episode[k].key})]

(***************************************************************************)
(* C9.  What the .cfg files of a run say, read off their lines.            *)
(***************************************************************************)
\* the section an option line j of the file stands under
SectionAt(file, j) ==
  file[Max({i \in 1..(j - 1) : file[i].k = "section" /\ file[i].ind = 0})].name

\* the value of the option written at line j, its headers and options
\* standing at column 0: what the line gives, and one more line of text for
\* every indented or blank line up to the next header or option
ValueAt(file, j) ==
  LET stop  == Min({i \in (j + 1)..Len(file) :
                      file[i].ind = 0 /\ file[i].k \in {"section", "option", "junk"}}
                   \cup {Len(file) + 1})
      more  == SelectSeq(SubSeq(file, j + 1, stop - 1), LAMBDA ln : ln.k # "comment")
  IN  join(<<file[j].value>> \o [i \in 1..Len(more) |-> more[i].text])

\* the options written in the file: <<section, key, value>>
Written(file) ==
  {<<SectionAt(file, j), file[j].name, ValueAt(file, j)>> :
     j \in {i \in 1..Len(file) : file[i].k = "option" /\ file[i].ind = 0}}

\* the options in force in the file: those written under a section other
\* than DEFAULT, and those of DEFAULT under every such section that does
\* not write the key itself
InForce(file) ==
  LET secs == {file[i].name : i \in {j \in 1..Len(file) :
                 file[j].k = "section" /\ file[j].ind = 0
                   /\ file[j].name # DEFAULTSECT}}
      own  == {w \in Written(file) : w[1] # DEFAULTSECT}
      inh  == {<<sec, w[2], w[3]>> : sec \in secs,
                 w \in {v \in Written(file) : v[1] = DEFAULTSECT}}
  IN  own \cup {h \in inh : \A w \in own : ~(w[1] = h[1] /\ w[2] = h[2])}

Qualified(w) == w[1] \o Dot \o w[2]

Options(file, inherit) == IF inherit THEN InForce(file) ELSE Written(file)

\* the config table of the files, with or without the options of DEFAULT
\* inherited: per qualified key the value of the last file that has it
ConfigOf(files, inherit) ==
  {<<Qualified(w), w[3]>> :
     w \in UNION {{v \in Options(files[i], inherit) :
                     \A j \in (i + 1)..Len(files) :
                        \A u \in Options(files[j], inherit) : Qualified(u) # Qualified(v)}
                  : i \in 1..Len(files)}}

RunDone == pc = "main" /\ run >= 1

ConfigTable(inherit) ==
  LET want == ConfigOf(cfg_seen, inherit)
  IN  IF want = {} THEN output[run].config = Absent
      ELSE /\ output[run].config # Absent
           /\ LET rows == DataRows(output[run].config)
              IN  /\ output[run].config[1] = << <<"p","a","r","a","m","e","t","e","r">>, <<"v","a","l","u","e">> >>
                  /\ {rows[i] : i \in 1..Len(rows)} = want
                  /\ \A i \in 1..(Len(rows) - 1) : StrLess(rows[i][1], rows[i + 1][1])

(***************************************************************************)
(* C9, as stated.  When a run is done, config.csv holds one row per        *)
(* "section.key" written in a .cfg file of the run, keys kept in their     *)
(* letter case, the value of the file read last, rows sorted by parameter  *)
(* name; the table is written only when there is a row.                    *)
(***************************************************************************)
C9_RowsAreKeysWritten == RunDone => ConfigTable(FALSE)

(***************************************************************************)
(* C9, amended.  When a run is done, config.csv holds one row per          *)
(* "section.key" in force in a .cfg file of the run: the options of each   *)
(* section other than DEFAULT, and the options of DEFAULT under every such *)
(* section (never as "DEFAULT.key"); keys kept in their letter case, the   *)
(* value of the file read last, rows sorted by parameter name; the table   *)
(* is written only when there is a row.                                    *)
(***************************************************************************)
C9_RowsAreKeysInForce == RunDone => ConfigTable(TRUE)

\* "s.Key" and "s.key" are two rows, and "s.key" has the value of the
\* second file
C9_Witness ==
  /\ RunDone /\ Len(cfg_seen) = 2
  /\ output[run].config = << << <<"p","a","r","a","m","e","t","e","r">>, <<"v","a","l","u","e">> >>,
                             << <<"s",".","K","e","y">>, <<"1">> >>, << <<"s",".","k","e","y">>, <<"7">> >> >>

(***************************************************************************)
(* The extractor on one line.                                              *)
(***************************************************************************)
ExampleRecord ==
  << <<"1","0","0">>, <<"3">>, <<"A","1","-","B","2">>, <<"0",".","1","0">>, <<"0",".","0","0","1">>, <<"5",".","0">>, <<"2">>,
     <<"0",".","0","5">>, <<"1",".","0">>, TRUE, <<"5","0",".","0">> >>

(***************************************************************************)
(* C3, as stated.  The extractor accepts the example line as printed,      *)
(* "... Iter: 100/3 A1-B2 - Rand Eps: 0.10 ... Reward: 50.0", and yields   *)
(* the example record.                                                     *)
(***************************************************************************)
C3_ExampleAsWrittenAccepted ==
  (pc = "extracted" /\ line = Render(ExampleAsWritten)) => row = ExampleRecord

(***************************************************************************)
(* C3, amended.  The example line is accepted when a "-" precedes          *)
(* "Iter:" ("... - Iter: 100/3 ...") and yields the example record; as     *)
(* printed, without that "-", it is rejected; and every line of that       *)
(* layout whose tokens satisfy the grammar yields the record of its 11     *)
(* tokens, Found being true exactly when the Seen digit is 1.              *)
(***************************************************************************)
C3_GrammarLinesYieldTokens ==
  pc = "extracted" =>
    /\ line = Render(BaseLine) => row = ExampleRecord
    /\ line = Render(ExampleAsWritten) => row = None
    /\ \A ls \in LineSpecs :
         (line = Render(ls) /\ SatisfiesGrammar(ls)) =>
            /\ row = Fields(ls)
            /\ row[10] = (ls.seen = <<" ","S","e","e","n","=","1">>)

\* a grammar line with Seen=0 has been extracted, Found is false
C3_Witness ==
  /\ pc = "extracted" /\ row # None
  /\ \E ls \in LineSpecs :
       line = Render(ls) /\ SatisfiesGrammar(ls) /\ ls.seen = <<" ","S","e","e","n","=","0">>
  /\ row[10] = FALSE

(***************************************************************************)
(* C4.  A line that satisfies the grammar except for one numeric token     *)
(* (Eps, lr, Ret, Last Crash, t, SF or Reward) is discarded: no record.    *)
(***************************************************************************)
C4_MalformedNumberDiscards ==
  pc = "extracted" =>
    \A ls \in LineSpecs :
       (line = Render(ls) /\ (OneBadNumber(ls) \/ OneBadLastCrash(ls))) =>
          row = None
====
